---- MODULE Spec2Model ----
(***************************************************************************)
(* A model of propcheck (src/propcheck.cc): a checker of statements of     *)
(* propositional logic.  Every line of the input file but the last is an   *)
(* axiom, the last line is the theorem; the program parses each line into  *)
(* an expression tree, registers the variables it meets, and enumerates    *)
(* the assignments x = 0, 1, ..., max looking for one that satisfies the   *)
(* axioms and refutes the theorem.                                         *)
(*                                                                         *)
(* Text is modelled as a sequence of one-character strings; a C string's   *)
(* terminating '\0' is the character NUL read at every position past the   *)
(* end.  Positions are 1-based, lengths are the source's byte counts.      *)
(*                                                                         *)
(* The source's int is 32 bits wide and its registry holds at most 32      *)
(* names.  2^32 assignments cannot be enumerated, so the model scales the  *)
(* width of int to IntBits and the registry's capacity with it; the        *)
(* source's unsigned long (U32, BOOL) is as wide as int or twice as wide,  *)
(* depending on the build, which the model keeps as the input longBits.    *)
(***************************************************************************)
EXTENDS Integers, Sequences, FiniteSets, TLC

\* The width of int, scaled (32 in the source's builds).
IntBits == 3

\* The capacity of the registry: "variables.size() > 32", scaled with int.
MaxVariables == IntBits

\* The longest file the model reads, in lines.
MaxLines == 3

VARIABLES
    argc,               \* main's argc
    canOpen,            \* whether fopen(argv[1]) succeeds
    longBits,           \* the build's width of unsigned long
    file,               \* the lines of the file, as fgets returns them
    pc,                 \* main's position: "start", "read", "loop", "done"
    linenum,            \* main's linenum: the lines read so far
    variables,          \* the global registry of variable names
    propositions,       \* main's vector of parsed expressions
    resolved,           \* history: the registry look-ups of the last line parsed
    max,                \* main's max
    x,                  \* main's loop counter
    axiomsConsistent,   \* main's flag
    verdict,            \* what the run printed last
    report,             \* the counterexample printed, or <<>>
    exitCode            \* the process's exit code, -1 while it runs

vars == <<argc, canOpen, longBits, file, pc, linenum, variables, propositions,
          resolved, max, x, axiomsConsistent, verdict, report, exitCode>>

---------------------------------------------------------------------------
(* Machine arithmetic *)

RECURSIVE Pow2(_)
Pow2(n) == IF n = 0 THEN 1 ELSE 2 * Pow2(n - 1)

RECURSIVE BitAnd(_, _)
BitAnd(a, b) ==
    IF a = 0 \/ b = 0 THEN 0
    ELSE ((a % 2) * (b % 2)) + 2 * BitAnd(a \div 2, b \div 2)

RECURSIVE BitOr(_, _)
BitOr(a, b) ==
    IF a = 0 THEN b
    ELSE IF b = 0 THEN a
    ELSE (IF a % 2 = 1 \/ b % 2 = 1 THEN 1 ELSE 0) + 2 * BitOr(a \div 2, b \div 2)

RECURSIVE BitXor(_, _)
BitXor(a, b) ==
    IF a = 0 THEN b
    ELSE IF b = 0 THEN a
    ELSE ((a + b) % 2) + 2 * BitXor(a \div 2, b \div 2)

\* 1<<i computed in int: the bit pattern of 2^i in IntBits bits, read as a
\* signed value (1<<31 is INT_MIN in the source's builds).
ShiftLeftInt(i) ==
    IF i < IntBits - 1 THEN Pow2(i) ELSE Pow2(i) - Pow2(IntBits)

\* The conversion of an int to unsigned long: the value modulo 2^bits (a
\* negative int is sign-extended).
ToULong(v, bits) == v % Pow2(bits)

---------------------------------------------------------------------------
(* The expression tree and its evaluation *)

MkTrue == [k |-> "True"]
MkFalse == [k |-> "False"]
MkVar(shift) == [k |-> "Var", shift |-> shift]
MkNot(E) == [k |-> "Not", E |-> E]
MkBin(kind, L, R) == [k |-> kind, L |-> L, R |-> R]

\* Var::operator(): ((x>>shift) & 1)
VarOp(xx, shift) == BitAnd(xx \div Pow2(shift), 1)

\* Not::operator(): BOOL(1) ^ E(x)
NotOp(e) == BitXor(1, e)

AndOp(l, r) == BitAnd(l, r)

OrOp(l, r) == BitOr(l, r)

XorOp(l, r) == BitXor(l, r)

\* Implies without the negation of R: 1 ^ (L(x) & R(x)).
ImpliesOpNoInnerNot(l, r) == BitXor(1, BitAnd(l, r))

\* Implies::operator(): 1 ^ (L(x) & (1 ^ R(x)))
ImpliesOp(l, r) == BitXor(1, BitAnd(l, BitXor(1, r)))

\* Iff::operator(): L(x) == R(x), a bool converted to BOOL
IffOp(l, r) == IF l = r THEN 1 ELSE 0

\* The virtual call (*E)(x).
RECURSIVE Eval(_, _)
Eval(e, xx) ==
    CASE e.k = "True" -> 1
      [] e.k = "False" -> 0
      [] e.k = "Var" -> VarOp(xx, e.shift)
      [] e.k = "Not" -> NotOp(Eval(e.E, xx))
      [] e.k = "And" -> AndOp(Eval(e.L, xx), Eval(e.R, xx))
      [] e.k = "Or" -> OrOp(Eval(e.L, xx), Eval(e.R, xx))
      [] e.k = "Xor" -> XorOp(Eval(e.L, xx), Eval(e.R, xx))
      [] e.k = "Implies" -> ImpliesOp(Eval(e.L, xx), Eval(e.R, xx))
      [] e.k = "Iff" -> IffOp(Eval(e.L, xx), Eval(e.R, xx))

---------------------------------------------------------------------------
(* Text *)

NUL == ""

\* The characters isspace() accepts in the "C" locale (the vertical tab,
\* which a TLA+ string cannot hold, is left out).
Space == {" ", "\t", "\n", "\r", "\f"}

isspace(c) == c \in Space

\* *(s + i - 1): the character at position i, the terminator past the end.
At(s, i) == IF i >= 1 /\ i <= Len(s) THEN s[i] ELSE NUL

\* The characters of s at positions from..to-1.
Chars(s, from, to) == [j \in 1..(to - from) |-> s[from + j - 1]]

\* skipWS(s + i - 1): the number of whitespace characters from position i.
RECURSIVE skipWS(_, _)
skipWS(s, i) == IF isspace(At(s, i)) THEN 1 + skipWS(s, i + 1) ELSE 0

\* The loop of parseString: how many leading characters of str match s at i.
RECURSIVE MatchLen(_, _, _, _)
MatchLen(s, i, str, j) ==
    IF At(str, j) # NUL /\ At(s, i) # NUL /\ At(s, i) = At(str, j)
    THEN 1 + MatchLen(s, i + 1, str, j + 1)
    ELSE 0

parseString(s, i, str) ==
    LET m == MatchLen(s, i, str, 1)
    IN IF At(str, m + 1) = NUL THEN m ELSE 0

parseOneString(s, i, str1, str2) ==
    LET n == parseString(s, i, str1)
    IN IF n # 0 THEN n ELSE parseString(s, i, str2)

---------------------------------------------------------------------------
(* The parser.  Every parse function returns the number of characters it   *)
(* consumed (0: no match) and leaves the expression in its reference       *)
(* parameter p; the model returns both, with the registry (a global in the *)
(* source), the history of the registry's look-ups, and whether exit(1)    *)
(* was called.                                                             *)

\* An empty shared_ptr<Expr>.
NoExpr == [k |-> "null"]

Res(n, p, vs, log, fatal) ==
    [n |-> n, p |-> p, vars |-> vs, log |-> log, fatal |-> fatal, wrapped |-> FALSE]

Ctx(r) == [vars |-> r.vars, log |-> r.log]

T_true == <<"t", "r", "u", "e">>
T_false == <<"f", "a", "l", "s", "e">>
T_bang == <<"!">>
T_not == <<"n", "o", "t">>
T_and == <<"a", "n", "d">>
T_amp == <<"&">>
T_or == <<"o", "r">>
T_bar == <<"|">>
T_xor == <<"x", "o", "r">>
T_caret == <<"^">>
T_then == <<"t", "h", "e", "n">>
T_implies == <<"i", "m", "p", "l", "i", "e", "s">>
T_arrow == <<"=", ">">>
T_if == <<"i", "f">>
T_larrow == <<"<", "=">>
T_iff == <<"i", "f", "f">>
T_darrow == <<"<", "=", ">">>

parseTrue(s, i, p) ==
    IF At(s, i) = "T" THEN [n |-> 1, p |-> MkTrue]
    ELSE LET n == parseString(s, i, T_true)
         IN [n |-> n, p |-> IF n # 0 THEN MkTrue ELSE p]

parseFalse(s, i, p) ==
    IF At(s, i) = "F" THEN [n |-> 1, p |-> MkFalse]
    ELSE LET n == parseString(s, i, T_false)
         IN [n |-> n, p |-> IF n # 0 THEN MkFalse ELSE p]

\* parseVar's first scan: the position of the first ']' from e, or 0 when
\* the terminator comes first.
RECURSIVE FindClose(_, _)
FindClose(s, e) ==
    IF At(s, e) = "]" THEN e
    ELSE IF At(s, e) = NUL THEN 0
    ELSE FindClose(s, e + 1)

\* while( isspace(*e) && e > startstr ) e--;
RECURSIVE TrimBack(_, _, _)
TrimBack(s, e, startstr) ==
    IF isspace(At(s, e)) /\ e > startstr THEN TrimBack(s, e - 1, startstr) ELSE e

\* for(i=0; i<variables.size(); i++) if( variables[i] == var ) break;
RECURSIVE Lookup(_, _, _)
Lookup(vs, var, i) ==
    IF i < Len(vs) /\ vs[i + 1] # var THEN Lookup(vs, var, i + 1) ELSE i

\* The cap test with >= in place of >.
OverCapAtCapacity(size) == size >= MaxVariables

\* if( variables.size() > 32 )
OverCap(size) == size > MaxVariables

\* push_back without the test on the look-up.
RegisterAlways(vs, var, i) == Append(vs, var)

\* if( i >= variables.size() ) variables.push_back(var);
Register(vs, var, i) == IF i >= Len(vs) THEN Append(vs, var) ELSE vs

LogEntry(raw, var, idx, size) ==
    [raw |-> raw, name |-> var, index |-> idx, sizeBefore |-> size]

\* parseVar, lines 185-199: the registry's block, for the name var found
\* at index idx of the registry (its size when var is not in it).
parseVarRegister(i, p, c, close, raw, var, idx) ==
    IF OverCap(Len(Register(c.vars, var, idx)))
    THEN Res(0, p, Register(c.vars, var, idx),
             Append(c.log, LogEntry(raw, var, idx, Len(c.vars))), TRUE)
    ELSE Res((close + 1) - i, MkVar(idx), Register(c.vars, var, idx),
             Append(c.log, LogEntry(raw, var, idx, Len(c.vars))), FALSE)

\* parseVar, lines 178-184: the name, trimmed of its trailing whitespace.
parseVarName(s, i, p, c, startstr, close) ==
    IF close = 0 THEN Res(0, p, c.vars, c.log, FALSE)
    ELSE parseVarRegister(i, p, c, close, Chars(s, i + 1, close),
                          Chars(s, startstr, TrimBack(s, close - 1, startstr) + 1),
                          Lookup(c.vars, Chars(s, startstr, TrimBack(s, close - 1, startstr) + 1), 0))

\* parseVar, lines 171-177: the scan to the closing bracket.
parseVarScan(s, i, p, c, startstr) ==
    parseVarName(s, i, p, c, startstr, FindClose(s, startstr))

parseVar(s, i, p, c) ==
    IF At(s, i) # "[" THEN Res(0, p, c.vars, c.log, FALSE)
    ELSE parseVarScan(s, i, p, c, (i + 1) + skipWS(s, i + 1))

\* The condition that ends parseBinaryExpr's scan of the operator.
OpStop(s, e) ==
    LET ch == At(s, e)
        nx == At(s, e + 1)
    IN \/ ch = NUL
       \/ ch \in {"!", "(", "[", "T", "F"}
       \/ (ch = "f" /\ nx = "a")
       \/ (ch = "t" /\ nx = "r")
       \/ (ch = "n" /\ nx = "o")
       \/ isspace(ch)

RECURSIVE ScanOp(_, _)
ScanOp(s, e) == IF OpStop(s, e) THEN e ELSE ScanOp(s, e + 1)

\* The operator table with (L,R) in every branch.
BinaryOfUnswapped(op, L, R) ==
    IF op = T_and \/ op = T_amp THEN MkBin("And", L, R)
    ELSE IF op = T_or \/ op = T_bar THEN MkBin("Or", L, R)
    ELSE IF op = T_xor \/ op = T_caret THEN MkBin("Xor", L, R)
    ELSE IF op = T_then \/ op = T_implies \/ op = T_arrow THEN MkBin("Implies", L, R)
    ELSE IF op = T_if \/ op = T_larrow THEN MkBin("Implies", L, R)
    ELSE IF op = T_iff \/ op = T_darrow THEN MkBin("Iff", L, R)
    ELSE NoExpr

\* The chain of comparisons that ends parseBinaryExpr: the tree built for
\* the operator string op, NoExpr when op is no operator.
BinaryOf(op, L, R) ==
    IF op = T_and \/ op = T_amp THEN MkBin("And", L, R)
    ELSE IF op = T_or \/ op = T_bar THEN MkBin("Or", L, R)
    ELSE IF op = T_xor \/ op = T_caret THEN MkBin("Xor", L, R)
    ELSE IF op = T_then \/ op = T_implies \/ op = T_arrow THEN MkBin("Implies", L, R)
    ELSE IF op = T_if \/ op = T_larrow THEN MkBin("Implies", R, L)
    ELSE IF op = T_iff \/ op = T_darrow THEN MkBin("Iff", L, R)
    ELSE NoExpr

RECURSIVE parseExpr(_, _, _, _)

\* parseNot, lines 211-218: r is what parseExpr(e,L) returned.
parseNotDone(p, n, r) ==
    IF r.fatal THEN r
    ELSE IF r.n # 0 THEN Res(n + r.n, MkNot(r.p), r.vars, r.log, FALSE)
    ELSE Res(0, p, r.vars, r.log, FALSE)

\* parseNot, lines 206-210: n is the length of "!" or "not" at i, or 0.
parseNotOperand(s, i, p, c, n) ==
    IF n = 0 THEN Res(0, p, c.vars, c.log, FALSE)
    ELSE parseNotDone(p, n, parseExpr(s, i + n, NoExpr, c))

parseNot(s, i, p, c) ==
    parseNotOperand(s, i, p, c, parseOneString(s, i, T_bang, T_not))

\* parseBinaryExpr, lines 261-292.
parseBinaryDone(i, p, r, e3, built) ==
    IF built = NoExpr THEN Res(0, p, r.vars, r.log, FALSE)
    ELSE Res((e3 + 1) - i, built, r.vars, r.log, FALSE)

\* parseBinaryExpr, lines 255-259: the closing parenthesis at e3.
parseBinaryClose(s, i, p, l, op, r, e3) ==
    IF At(s, e3) # ")" THEN Res(0, p, r.vars, r.log, FALSE)
    ELSE parseBinaryDone(i, p, r, e3, BinaryOf(op, l.p, r.p))

\* parseBinaryExpr, lines 251-256: r is what parseExpr(e,R) returned at e2.
parseBinaryRightDone(s, i, p, l, op, e2, r) ==
    IF r.fatal THEN r
    ELSE IF r.n = 0 THEN Res(0, p, r.vars, r.log, FALSE)
    ELSE parseBinaryClose(s, i, p, l, op, r, (e2 + r.n) + skipWS(s, e2 + r.n))

\* parseBinaryExpr, lines 247-250: the right expression, from e2.
parseBinaryRight(s, i, p, l, op, e2) ==
    parseBinaryRightDone(s, i, p, l, op, e2, parseExpr(s, e2, NoExpr, Ctx(l)))

\* parseBinaryExpr, lines 244-245: the operator string is [startop, endop).
parseBinaryOp(s, i, p, l, startop, endop) ==
    parseBinaryRight(s, i, p, l, Chars(s, startop, endop), endop + skipWS(s, endop))

\* parseBinaryExpr, lines 234-243: l is what parseExpr(e,L) returned at e1.
parseBinaryLeftDone(s, i, p, e1, l) ==
    IF l.fatal THEN l
    ELSE IF l.n = 0 THEN Res(0, p, l.vars, l.log, FALSE)
    ELSE parseBinaryOp(s, i, p, l, (e1 + l.n) + skipWS(s, e1 + l.n),
                       ScanOp(s, (e1 + l.n) + skipWS(s, e1 + l.n)))

\* parseBinaryExpr, lines 226-233: the opening parenthesis at e0.
parseBinaryOpen(s, i, p, c, e0) ==
    IF At(s, e0) # "(" THEN Res(0, p, c.vars, c.log, FALSE)
    ELSE parseBinaryLeftDone(s, i, p, (e0 + 1) + skipWS(s, e0 + 1),
                             parseExpr(s, (e0 + 1) + skipWS(s, e0 + 1), NoExpr, c))

parseBinaryExpr(s, i, p, c) == parseBinaryOpen(s, i, p, c, i + skipWS(s, i))

\* parseExpr, lines 320-325: b is what parseBinaryExpr returned at e.
parseExprBinary(i, p, e, b) ==
    IF b.fatal THEN b
    ELSE IF b.n # 0 THEN [b EXCEPT !.n = (e + b.n) - i]
    ELSE Res(0, p, b.vars, b.log, FALSE)

\* parseExpr, lines 315-319: nt is what parseNot returned at e.
parseExprNot(s, i, p, e, nt) ==
    IF nt.fatal THEN nt
    ELSE IF nt.n # 0 THEN [nt EXCEPT !.n = (e + nt.n) - i]
    ELSE parseExprBinary(i, p, e, parseBinaryExpr(s, e, p, Ctx(nt)))

\* parseExpr, lines 310-314: v is what parseVar returned at e.
parseExprVar(s, i, p, e, v) ==
    IF v.fatal THEN v
    ELSE IF v.n # 0 THEN [v EXCEPT !.n = (e + v.n) - i]
    ELSE parseExprNot(s, i, p, e, parseNot(s, e, p, Ctx(v)))

\* parseExpr, lines 305-309: f is what parseFalse returned at e.
parseExprFalse(s, i, p, c, e, f) ==
    IF f.n # 0 THEN Res((e + f.n) - i, f.p, c.vars, c.log, FALSE)
    ELSE parseExprVar(s, i, p, e, parseVar(s, e, p, c))

\* parseExpr, lines 300-304: t is what parseTrue returned at e.
parseExprTrue(s, i, p, c, e, t) ==
    IF t.n # 0 THEN Res((e + t.n) - i, t.p, c.vars, c.log, FALSE)
    ELSE parseExprFalse(s, i, p, c, e, parseFalse(s, e, p))

parseExprAt(s, i, p, c, e) == parseExprTrue(s, i, p, c, e, parseTrue(s, e, p))

parseExpr(s, i, p, c) == parseExprAt(s, i, p, c, i + skipWS(s, i))

\* Whether a parse that consumed n characters of s reached its end:
\* e += n; e += skipWS(e); n && *e=='\0'
WholeLine(s, n) == n # 0 /\ At(s, (1 + n) + skipWS(s, 1 + n)) = NUL

\* parseTopLevelExpr, lines 340-346: r2 is what parseExpr returned on test;
\* n is left as e - test.c_str(), and wrapped tells that e points into test.
parseTopWrappedDone(test, r2) ==
    IF r2.fatal THEN r2
    ELSE IF WholeLine(test, r2.n)
    THEN [r2 EXCEPT !.n = ((1 + r2.n) + skipWS(test, 1 + r2.n)) - 1,
                    !.wrapped = TRUE]
    ELSE [r2 EXCEPT !.n = 0]

\* parseTopLevelExpr without its second attempt.
parseTopWrappedNever(test, r1) == [r1 EXCEPT !.n = 0]

\* parseTopLevelExpr, lines 337-340: the attempt on "(" + s + ")".
parseTopWrapped(test, r1) ==
    parseTopWrappedDone(test, parseExpr(test, 1, r1.p, Ctx(r1)))

\* parseTopLevelExpr, lines 331-338: r1 is what parseExpr returned on s.
parseTopDirectDone(s, r1) ==
    IF r1.fatal THEN r1
    ELSE IF WholeLine(s, r1.n)
    THEN [r1 EXCEPT !.n = ((1 + r1.n) + skipWS(s, 1 + r1.n)) - 1]
    ELSE parseTopWrapped(<<"(">> \o s \o <<")">>, r1)

\* parseTopLevelExpr(s, p) with p empty, the registry and its history in c.
\* n is the number returned, but after a second attempt that succeeds
\* (wrapped): the source then returns U32(e-s) with e a pointer into test
\* and s the line, the difference of two pointers into different arrays,
\* which only the build decides (see PtrDiffs).
parseTopLevelExpr(s, c) ==
    parseTopDirectDone(s, [parseExpr(s, 1, NoExpr, c) EXCEPT !.wrapped = FALSE])

---------------------------------------------------------------------------
(* main *)

\* for( int i=1; i<variables.size(); i++ ) max|=(1<<i);  from max = m
RECURSIVE MaxLoop(_, _, _, _)
MaxLoop(m, i, size, bits) ==
    IF i < size
    THEN MaxLoop(BitOr(m, ToULong(ShiftLeftInt(i), bits)), i + 1, size, bits)
    ELSE m

\* max computed from U32 max = 0.
ComputeMaxFromZero(size, bits) == MaxLoop(0, 1, size, bits)

\* U32 max = 1; followed by the loop above.
ComputeMax(size, bits) == MaxLoop(1, 1, size, bits)

\* for( i=0; i<propositions.size()-1; i++ ) if( !(*propositions[i])(x) ) break;
\* the value of i after the loop.
RECURSIVE FirstFalse(_, _, _)
FirstFalse(props, xx, i) ==
    IF i < Len(props) - 1 /\ Eval(props[i + 1], xx) # 0
    THEN FirstFalse(props, xx, i + 1)
    ELSE i

\* The table printed for a counterexample: (U32(1)<<j)&x for each variable.
Table(xx, size) == [j \in 1..size |-> BitAnd(Pow2(j - 1), xx) # 0]

\* x += 2 on an unsigned long.
NextXSkipOne(xx, bits) == (xx + 2) % Pow2(bits)

\* x++ on an unsigned long.
NextX(xx, bits) == (xx + 1) % Pow2(bits)

\* The values U32(e-s) can take for a pointer e into the string test and
\* the pointer s to the line: test and the line are different objects and e
\* stays within test, so e and s differ, and so does their difference from 0
\* in an unsigned long as wide as a pointer.
PtrDiffs(bits) == 1..(Pow2(bits) - 1)

\* A return whose value is 0 whatever the message.
ExitZero(v, code) ==
    /\ pc' = "done"
    /\ verdict' = v
    /\ exitCode' = 0

\* Lines 354, 362, 376, 384, 419, 436: the message is printed and main
\* returns (exit(1) at line 195, from parseVar).
Exit(v, code) ==
    /\ pc' = "done"
    /\ verdict' = v
    /\ exitCode' = code

\* Lines 352-363: the check of argc and fopen.
Start ==
    /\ pc = "start"
    /\ IF argc < 2 THEN Exit("usage", 1)
       ELSE IF ~canOpen THEN Exit("cannot open", 1)
       ELSE /\ pc' = "read"
            /\ UNCHANGED <<verdict, exitCode>>
    /\ UNCHANGED <<argc, canOpen, longBits, file, linenum, variables,
                   propositions, resolved, max, x, axiomsConsistent, report>>

\* if(!parseTopLevelExpr(line,p)): whether the number returned is 0, when
\* r is what the parse left and diffIsZero tells whether U32(e-s) is 0.
ReturnedZero(r, diffIsZero) == IF r.wrapped THEN diffIsZero ELSE r.n = 0

\* Lines 373-379: r is what parseTopLevelExpr left.
Parsed(r, diffIsZero) ==
    /\ variables' = r.vars
    /\ resolved' = r.log
    /\ IF r.fatal
       THEN /\ Exit("over 32 variables", 1)
            /\ UNCHANGED propositions
       ELSE IF ReturnedZero(r, diffIsZero)
       THEN /\ Exit("syntax error", 1)
            /\ UNCHANGED propositions
       ELSE /\ propositions' = Append(propositions, r.p)
            /\ UNCHANGED <<pc, verdict, exitCode>>

\* Lines 366-380: one iteration of the loop on fgets.
ReadLine ==
    /\ pc = "read"
    /\ linenum < Len(file)
    /\ linenum' = linenum + 1
    /\ IF At(file[linenum + 1], 1) = "/" /\ At(file[linenum + 1], 2) = "/"
       THEN UNCHANGED <<pc, variables, propositions, resolved, verdict, exitCode>>
       ELSE IF At(file[linenum + 1], 1 + skipWS(file[linenum + 1], 1)) = NUL
       THEN UNCHANGED <<pc, variables, propositions, resolved, verdict, exitCode>>
       ELSE \E diffIsZero \in {diff = 0 : diff \in PtrDiffs(longBits)} :
              Parsed(parseTopLevelExpr(file[linenum + 1],
                                       [vars |-> variables, log |-> <<>>]),
                     diffIsZero)
    /\ UNCHANGED <<argc, canOpen, longBits, file, max, x, axiomsConsistent, report>>

\* Lines 381-395: fgets returned NULL.
EndOfFile ==
    /\ pc = "read"
    /\ ~(linenum < Len(file))
    /\ IF Len(propositions) < 1
       THEN /\ Exit("no theorem", 1)
            /\ UNCHANGED <<max, x, axiomsConsistent>>
       ELSE /\ max' = ComputeMax(Len(variables), longBits)
            /\ x' = 0
            /\ axiomsConsistent' = FALSE
            /\ pc' = "loop"
            /\ UNCHANGED <<verdict, exitCode>>
    /\ UNCHANGED <<argc, canOpen, longBits, file, linenum, variables,
                   propositions, resolved, report>>

\* Lines 396-423: one iteration of the loop on x.
LoopStep ==
    /\ pc = "loop"
    /\ x <= max
    /\ IF FirstFalse(propositions, x, 0) # Len(propositions) - 1
       THEN /\ x' = NextX(x, longBits)
            /\ UNCHANGED <<pc, axiomsConsistent, verdict, report, exitCode>>
       ELSE /\ axiomsConsistent' = TRUE
            /\ IF Eval(propositions[Len(propositions)], x) = 0
               THEN /\ Exit("theorem is false", 1)
                    /\ report' = Table(x, Len(variables))
                    /\ UNCHANGED x
               ELSE /\ x' = NextX(x, longBits)
                    /\ UNCHANGED <<pc, verdict, report, exitCode>>
    /\ UNCHANGED <<argc, canOpen, longBits, file, linenum, variables,
                   propositions, resolved, max>>

\* Lines 425-437: the loop on x has ended.
LoopExit ==
    /\ pc = "loop"
    /\ ~(x <= max)
    /\ IF ~axiomsConsistent
       THEN Exit("axioms are not consistent", 0)
       ELSE Exit("theorem verified", 0)
    /\ UNCHANGED <<argc, canOpen, longBits, file, linenum, variables,
                   propositions, resolved, max, x, axiomsConsistent, report>>

Next == Start \/ ReadLine \/ EndOfFile \/ LoopStep \/ LoopExit

---------------------------------------------------------------------------
(* Inputs *)

NL == <<"\n">>

Ref(name) == <<"[">> \o name \o <<"]">>

Paren(l, op, r) == <<"(", " ">> \o l \o <<" ">> \o op \o <<" ">> \o r \o <<" ", ")">>

nA == <<"A">>
nB == <<"B">>
nC == <<"C">>
nD == <<"D">>
nE == <<"E">>

\* The lines of the files the program is run on.
Lines ==
    { Ref(nA) \o NL,
      T_not \o <<" ">> \o Ref(nA) \o NL,
      Paren(Ref(nA), T_arrow, Ref(nB)) \o NL,
      Ref(nB) \o NL,
      Paren(Ref(nA), T_or, Ref(nB)) \o NL,
      Ref(nC) \o <<" ">> \o T_and \o <<" ">> \o T_not \o <<" ">> \o Ref(nC),
      <<"T">> \o NL,
      <<"/", "/", "x">> \o NL,
      <<" ">> \o NL,
      Paren(Ref(nD), T_xor, Ref(nE)) \o NL,
      Ref(nA) \o <<" ">> \o T_amp \o NL }

RECURSIVE Files(_, _)
Files(lines, len) ==
    IF len = 0 THEN {<<>>}
    ELSE {<<>>} \cup {<<l>> \o f : l \in lines, f \in Files(lines, len - 1)}

\* The builds: unsigned long as wide as int, or twice as wide.
Builds == {IntBits, 2 * IntBits}

InitRest ==
    /\ pc = "start"
    /\ linenum = 0
    /\ variables = <<>>
    /\ propositions = <<>>
    /\ resolved = <<>>
    /\ max = 0
    /\ x = 0
    /\ axiomsConsistent = FALSE
    /\ verdict = "none"
    /\ report = <<>>
    /\ exitCode = -1

Init ==
    /\ longBits \in Builds
    /\ \/ argc = 1 /\ canOpen = FALSE /\ file = <<>>
       \/ argc = 2 /\ canOpen = FALSE /\ file = <<>>
       \/ argc = 2 /\ canOpen = TRUE /\ file \in Files(Lines, MaxLines)
    /\ InitRest

Spec == Init /\ [][Next]_vars

\* The lines of the files the runs that must end are started on.
FairLines ==
    { Ref(nA) \o NL,
      Paren(Ref(nA), T_arrow, Ref(nB)) \o NL,
      Ref(nC) \o <<" ">> \o T_and \o <<" ">> \o T_not \o <<" ">> \o Ref(nC),
      <<"T">> \o NL,
      Paren(Ref(nD), T_xor, Ref(nE)) \o NL }

InitFair ==
    /\ longBits \in Builds
    /\ argc = 2
    /\ canOpen = TRUE
    /\ file \in Files(FairLines, MaxLines)
    /\ InitRest

\* Whether ReadLine is enabled: it always changes linenum.
CanRead == pc = "read" /\ linenum < Len(file)

\* main runs to its end: it is one thread that nothing suspends, so every
\* step that can be taken is taken.  The last conjunct is WF_vars(ReadLine)
\* with ENABLED <<ReadLine>>_vars written out as CanRead.
FairSpec ==
    /\ InitFair
    /\ [][Next]_vars
    /\ WF_vars(Start)
    /\ WF_vars(EndOfFile)
    /\ WF_vars(LoopStep)
    /\ WF_vars(LoopExit)
    /\ ([]<>~CanRead \/ []<><<ReadLine>>_vars)

---------------------------------------------------------------------------
(* Inputs for the parser: one binary expression after its two operands,    *)
(* one line of a few tokens, one line of references to variables.          *)

Operands ==
    { <<"T">>, <<"F">>, T_true, T_false,
      Ref(nA), <<"[", " ">> \o nB \o <<"\t", "]">>,
      T_not \o <<" ">> \o Ref(nA), T_bang \o Ref(nB),
      Paren(Ref(nA), T_bar, Ref(nB)) }

OpTokens ==
    { T_and, T_amp, T_or, T_bar, T_xor, T_caret, T_then, T_implies, T_arrow,
      T_if, T_larrow, T_iff, T_darrow }

\* "(L op R)" without whitespace (pad empty), or with pad around each part.
Binary(l, op, r, pad) ==
    <<"(">> \o pad \o l \o pad \o op \o pad \o r \o pad \o <<")">>

Pads == {<<>>, <<" ">>}

BinaryFiles ==
    { IF op \in {T_if, T_larrow}
      THEN << l \o NL, r \o NL, Binary(l, op, r, pad) \o NL,
              Binary(r, T_arrow, l, pad) \o NL >>
      ELSE << l \o NL, r \o NL, Binary(l, op, r, pad) \o NL >> :
      l \in Operands, r \in Operands, op \in OpTokens, pad \in Pads }

\* The most tokens on a line of TokenFiles.
MaxTokens == 4

Tokens ==
    { Ref(nA), <<"T">>, <<"(">>, <<")">>,
      <<" ">> \o T_and \o <<" ">>, T_not \o <<" ">> }

RECURSIVE TokenLines(_)
TokenLines(len) ==
    IF len = 0 THEN {<<>>}
    ELSE {<<>>} \cup {tok \o rest : tok \in Tokens, rest \in TokenLines(len - 1)}

TokenFiles == { <<l \o NL>> : l \in TokenLines(MaxTokens) \ {<<>>} }

References ==
    { Ref(nA), <<"[", " ">> \o nA \o <<"\t", "]">>, <<"[">> \o nB \o <<" ", "]">>,
      <<"[">> \o nA \o <<" ">> \o nB \o <<"]">>, <<"[", " ", "]">>, Ref(nC) }

RECURSIVE ReferenceChains(_)
ReferenceChains(len) ==
    IF len = 1 THEN References
    ELSE { <<"(">> \o ref \o T_bar \o rest \o <<")">> :
           ref \in References, rest \in ReferenceChains(len - 1) }

\* One line, the theorem, with one reference more than the registry holds;
\* the theorem is false under every assignment.
ReferenceFiles ==
    { << <<"(", "F">> \o T_amp \o chain \o <<")">> \o NL >> :
      chain \in ReferenceChains(MaxVariables + 1) }

InitParse ==
    /\ longBits \in Builds
    /\ argc = 2
    /\ canOpen = TRUE
    /\ file \in BinaryFiles \cup TokenFiles \cup ReferenceFiles
    /\ InitRest

SpecParse == InitParse /\ [][Next]_vars

---------------------------------------------------------------------------
(* Inputs for the evaluator: every expression of depth 2 or less over two  *)
(* variables, written out as a one-line file.                              *)

Kinds == {"And", "Or", "Xor", "Implies", "Iff"}

Leaves == {MkTrue, MkFalse, MkVar(0), MkVar(1)}

Grow(S) ==
    S \cup {MkNot(e) : e \in S} \cup {MkBin(kind, l, r) : kind \in Kinds, l \in S, r \in S}

Trees == Grow(Grow(Leaves))

KindToken(kind) ==
    CASE kind = "And" -> T_and
      [] kind = "Or" -> T_bar
      [] kind = "Xor" -> T_caret
      [] kind = "Implies" -> T_arrow
      [] kind = "Iff" -> T_iff

\* The text of an expression, variable 0 written [A] and variable 1 [B].
RECURSIVE Show(_)
Show(e) ==
    CASE e.k = "True" -> <<"T">>
      [] e.k = "False" -> T_false
      [] e.k = "Var" -> IF e.shift = 0 THEN Ref(nA) ELSE Ref(nB)
      [] e.k = "Not" -> T_bang \o Show(e.E)
      [] OTHER -> Paren(Show(e.L), KindToken(e.k), Show(e.R))

InitEval ==
    /\ longBits \in Builds
    /\ argc = 2
    /\ canOpen = TRUE
    /\ file \in { <<Show(e) \o NL>> : e \in Trees }
    /\ InitRest

SpecEval == InitEval /\ [][Next]_vars

---------------------------------------------------------------------------
(* Reference notions the properties are stated with *)

\* The truth value of e when bit i of the word a is the value of variable i.
RECURSIVE Truth(_, _)
Truth(e, a) ==
    CASE e.k = "True" -> TRUE
      [] e.k = "False" -> FALSE
      [] e.k = "Var" -> (a \div Pow2(e.shift)) % 2 = 1
      [] e.k = "Not" -> ~Truth(e.E, a)
      [] e.k = "And" -> Truth(e.L, a) /\ Truth(e.R, a)
      [] e.k = "Or" -> Truth(e.L, a) \/ Truth(e.R, a)
      [] e.k = "Xor" -> Truth(e.L, a) # Truth(e.R, a)
      [] e.k = "Implies" -> Truth(e.L, a) => Truth(e.R, a)
      [] e.k = "Iff" -> Truth(e.L, a) <=> Truth(e.R, a)

\* The assignments to the registered variables.
Assignments == 0..(Pow2(Len(variables)) - 1)

Axioms == {propositions[i] : i \in 1..(Len(propositions) - 1)}

Theorem == propositions[Len(propositions)]

\* The models of the axioms, and those among them that refute the theorem.
Models == {a \in Assignments : \A e \in Axioms : Truth(e, a)}

Refuting == {a \in Models : ~Truth(Theorem, a)}

ReferenceVerdict ==
    IF Refuting # {} THEN "theorem is false"
    ELSE IF Models = {} THEN "axioms are not consistent"
    ELSE "theorem verified"

Verdicts == {"theorem is false", "theorem verified", "axioms are not consistent"}

FatalErrors ==
    {"usage", "cannot open", "syntax error", "no theorem", "over 32 variables"}

\* What the evaluator says of a counterexample.
IsCounterexample(a) ==
    /\ \A i \in 1..(Len(propositions) - 1) : Eval(propositions[i], a) = 1
    /\ Eval(propositions[Len(propositions)], a) = 0

---------------------------------------------------------------------------
(* The enumeration *)

\* C1: when the run ends with "theorem is false", the x it reports is the
\* smallest assignment in 0..2^n-1 at which every axiom evaluates true and
\* the theorem false, the table printed is that of x, and the run has
\* stopped: no further assignment is examined.
C1_FirstCounterexample ==
    verdict = "theorem is false" =>
        /\ x \in Assignments
        /\ IsCounterexample(x)
        /\ \A a \in 0..(x - 1) : ~IsCounterexample(a)
        /\ report = [j \in 1..Len(variables) |-> (x \div Pow2(j - 1)) % 2 = 1]
        /\ pc = "done"
        /\ ~ENABLED Next

\* Two assignments refute the theorem and the smaller one, which is not the
\* first assignment of all, was reported.
C1_Witness ==
    /\ verdict = "theorem is false"
    /\ x > 0
    /\ \E a \in Assignments : a > x /\ IsCounterexample(a)

\* C2: the verdict the run ends with is the one the set of models gives:
\* "theorem is false" iff some model of the axioms refutes the theorem,
\* else "axioms are not consistent" iff the axioms have no model, else
\* "theorem verified"; and a run that leaves the loop ends with a verdict.
C2_VerdictIsReference ==
    /\ verdict \in Verdicts => pc = "done" /\ verdict = ReferenceVerdict
    /\ pc = "done" /\ verdict \notin FatalErrors => verdict \in Verdicts

\* Axioms without a model were reported as such, not as a verified theorem.
C2_Witness ==
    /\ verdict = "axioms are not consistent"
    /\ Len(propositions) > 1
    /\ Models = {}

\* C3: the loop evaluates the propositions against exactly 0..2^n-1, each
\* once and in ascending order: every x it holds while it runs is below
\* 2^n, x never decreases, and it leaves the loop with x = 2^n.
C3_EnumeratesAssignments ==
    /\ [](pc = "loop" /\ x <= max => x \in Assignments)
    /\ [][pc = "loop" /\ pc' = "loop" => x' = x + 1]_vars
    /\ [][pc = "loop" /\ pc' = "done" /\ verdict' # "theorem is false"
            => x = Pow2(Len(variables))]_vars

\* C4: the loop terminates, for every number of variables up to the
\* registry's capacity: every run reaches its end.
C4_Terminates == <>(pc = "done")

\* C10: the exit code is 0 exactly after "theorem verified" and "axioms are
\* not consistent", 1 after "theorem is false" and after every fatal error;
\* a fatal error is the first one met and ends the run before any
\* assignment is examined.
C10_ExitCodes ==
    /\ pc = "done" <=> exitCode # -1
    /\ pc = "done" <=> verdict # "none"
    /\ exitCode \in {-1, 0, 1}
    /\ exitCode = 0 <=> verdict \in {"theorem verified", "axioms are not consistent"}
    /\ exitCode = 1 <=> verdict \in FatalErrors \cup {"theorem is false"}
    /\ verdict \in FatalErrors =>
          /\ ~ENABLED Next
          /\ max = 0 /\ x = 0 /\ ~axiomsConsistent /\ report = <<>>
    /\ verdict = "usage" <=> pc = "done" /\ argc < 2
    /\ verdict = "cannot open" <=> pc = "done" /\ argc >= 2 /\ ~canOpen
    /\ verdict \in {"syntax error", "over 32 variables"} =>
          Len(propositions) < linenum
    /\ verdict = "no theorem" => propositions = <<>> /\ linenum = Len(file)

\* A syntax error on a line after a line that parsed ended the run.
C10_Witness ==
    /\ verdict = "syntax error"
    /\ exitCode = 1
    /\ Len(propositions) >= 1

---------------------------------------------------------------------------
(* The registry *)

Last(seq) == seq[Len(seq)]

Range(seq) == {seq[i] : i \in 1..Len(seq)}

\* seq without the whitespace at its two ends.
RECURSIVE TrimLeft(_)
TrimLeft(seq) ==
    IF seq # <<>> /\ Head(seq) \in Space THEN TrimLeft(Tail(seq)) ELSE seq

RECURSIVE TrimRight(_)
TrimRight(seq) ==
    IF seq # <<>> /\ Last(seq) \in Space
    THEN TrimRight(SubSeq(seq, 1, Len(seq) - 1))
    ELSE seq

Trimmed(seq) == TrimRight(TrimLeft(seq))

\* names without its repetitions, in the order of the first occurrences.
RECURSIVE FirstOccurrences(_)
FirstOccurrences(names) ==
    IF names = <<>> THEN <<>>
    ELSE LET before == FirstOccurrences(SubSeq(names, 1, Len(names) - 1))
         IN IF Last(names) \in Range(before) THEN before
            ELSE Append(before, Last(names))

NamesOf(log) == [k \in 1..Len(log) |-> Trimmed(log[k].raw)]

\* C5: the run fails with "over 32 variables" exactly when one name more
\* than the registry's capacity is resolved: the registry then holds
\* capacity + 1 distinct names and the look-up that failed is the last one,
\* of a new name; no look-up of a name already registered fails.
C5_FailsAtCapacityPlusOne ==
    /\ Len(variables) <= MaxVariables + 1
    /\ verdict = "over 32 variables" <=> Len(variables) > MaxVariables
    /\ verdict = "over 32 variables" =>
          /\ Cardinality(Range(variables)) = MaxVariables + 1
          /\ resolved # <<>>
          /\ Last(resolved).index = MaxVariables
          /\ Last(resolved).sizeBefore = MaxVariables
    /\ \A k \in 1..Len(resolved) :
          /\ resolved[k].index <= resolved[k].sizeBefore
          /\ resolved[k].index < resolved[k].sizeBefore =>
                ~(k = Len(resolved) /\ verdict = "over 32 variables")

\* The registry was full, a registered name was resolved again, and the run
\* went on.
C5_Witness ==
    /\ verdict # "over 32 variables"
    /\ Len(propositions) = linenum
    /\ \E k \in 1..Len(resolved) :
          /\ resolved[k].sizeBefore = MaxVariables
          /\ resolved[k].index < MaxVariables

\* C6: the registry holds pairwise distinct names, trimmed of whitespace,
\* in the order of their first occurrences; a look-up returns the position
\* of the trimmed name, which later look-ups leave where it is; two
\* different names never get the same index.
C6_RegistryInvariant ==
    /\ \A i, j \in 1..Len(variables) : i # j => variables[i] # variables[j]
    /\ \A i \in 1..Len(variables) : variables[i] = Trimmed(variables[i])
    /\ \A k \in 1..Len(resolved) :
          /\ resolved[k].name = Trimmed(resolved[k].raw)
          /\ resolved[k].index < Len(variables)
          /\ variables[resolved[k].index + 1] = resolved[k].name
    /\ \A k, m \in 1..Len(resolved) :
          resolved[k].name # resolved[m].name => resolved[k].index # resolved[m].index

C6_Registry ==
    /\ []C6_RegistryInvariant
    /\ [][variables' = FirstOccurrences(variables \o NamesOf(resolved'))]_vars

\* A name written with whitespace around it was found again at the index
\* its first occurrence got, after another name had been registered.
C6_Witness ==
    \E k, m \in 1..Len(resolved) :
        /\ k < m
        /\ resolved[k].index = 0
        /\ resolved[m].index = 0
        /\ resolved[m].sizeBefore >= 2
        /\ resolved[m].raw # resolved[k].raw

---------------------------------------------------------------------------
(* The evaluator *)

\* C7: for every expression and every assignment the evaluator returns 0
\* or 1, 1 exactly when the expression is true by the truth tables; an
\* implication evaluates as Or(Not(l), r), and Not(Not(e)) as e.
C7_EvalIsTruthTable ==
    \A i \in 1..Len(propositions) : \A a \in Assignments :
        /\ Eval(propositions[i], a) \in {0, 1}
        /\ Eval(propositions[i], a) = 1 <=> Truth(propositions[i], a)
        /\ Eval(MkNot(MkNot(propositions[i])), a) = Eval(propositions[i], a)
        /\ propositions[i].k = "Implies" =>
              Eval(propositions[i], a)
                = Eval(MkBin("Or", MkNot(propositions[i].L), propositions[i].R), a)
        /\ propositions[i].k = "Var" =>
              Eval(propositions[i], a) = (a \div Pow2(propositions[i].shift)) % 2

\* The loop evaluated an implication between two different variables, with
\* the antecedent true and the consequent false.
C7_Witness ==
    /\ verdict = "theorem is false"
    /\ propositions[1].k = "Implies"
    /\ propositions[1].L.k = "Var"
    /\ propositions[1].R.k = "Var"
    /\ x = 1

---------------------------------------------------------------------------
(* The parser *)

StripNL(line) == SubSeq(line, 1, Len(line) - 1)

\* The tree the operator token op stands for, between the trees l and r.
ExpectedTree(op, l, r) ==
    CASE op \in {T_and, T_amp} -> MkBin("And", l, r)
      [] op \in {T_or, T_bar} -> MkBin("Or", l, r)
      [] op \in {T_xor, T_caret} -> MkBin("Xor", l, r)
      [] op \in {T_then, T_implies, T_arrow} -> MkBin("Implies", l, r)
      [] op \in {T_if, T_larrow} -> MkBin("Implies", r, l)
      [] op \in {T_iff, T_darrow} -> MkBin("Iff", l, r)

\* Whether the file is L, R, "(L op R)" for the operator token op.
IsBinaryFile(op, pad) ==
    /\ Len(file) >= 3
    /\ file[3] = Binary(StripNL(file[1]), op, StripNL(file[2]), pad) \o NL

\* C8: "(L if R)" and "(L <= R)" parse to Implies(R, L), the tree that
\* "(R => L)" parses to, true exactly when R is false or L is true; every
\* other operator token builds its operator with L on the left and R on
\* the right.
C8_OperatorTrees ==
    \A op \in OpTokens, pad \in Pads :
        IsBinaryFile(op, pad) /\ linenum >= 3 =>
            /\ Len(propositions) >= 3
            /\ propositions[3] = ExpectedTree(op, propositions[1], propositions[2])
            /\ op \in {T_if, T_larrow} =>
                  /\ linenum >= 4 => /\ Len(propositions) >= 4
                                     /\ propositions[4] = propositions[3]
                  /\ \A a \in Assignments :
                        Eval(propositions[3], a) = 1
                          <=> (~Truth(propositions[2], a) \/ Truth(propositions[1], a))

\* "(L if R)" with different L and R and "(R => L)" were both parsed.
C8_Witness ==
    /\ IsBinaryFile(T_if, <<>>)
    /\ Len(propositions) = 4
    /\ propositions[1] # propositions[2]
    /\ propositions[1].k = "Var"
    /\ propositions[3] = MkBin("Implies", propositions[2], propositions[1])

EmptyRegistry == [vars |-> <<>>, log |-> <<>>]

\* The direct attempt on the first line of the file, from an empty registry.
DirectAttempt == parseExpr(file[1], 1, NoExpr, EmptyRegistry)

\* The attempt on the first line wrapped in parentheses, after the direct one.
WrappedAttempt ==
    parseExpr(<<"(">> \o file[1] \o <<")">>, 1, NoExpr, Ctx(DirectAttempt))

DirectParses == ~DirectAttempt.fatal /\ WholeLine(file[1], DirectAttempt.n)

WrappedParses ==
    /\ ~DirectAttempt.fatal
    /\ ~WrappedAttempt.fatal
    /\ WholeLine(<<"(">> \o file[1] \o <<")">>, WrappedAttempt.n)

\* A line main hands to the parser: no comment, and not blank.
IsProposition(line) ==
    /\ ~(At(line, 1) = "/" /\ At(line, 2) = "/")
    /\ At(line, 1 + skipWS(line, 1)) # NUL

ExampleLine ==
    Ref(nA) \o <<" ">> \o T_and \o <<" ">> \o T_not \o <<" ">> \o Ref(nA) \o NL

\* Whether an attempt that left r matched the whole of text.
Succeeded(text, r) == ~r.fatal /\ WholeLine(text, r.n)

\* What C9 says of the first line, when d is what the direct attempt left
\* and w what the attempt in parentheses left after it.
AcceptedAsParsed(d, w) ==
    IF Succeeded(file[1], d)
    THEN /\ Len(propositions) >= 1
         /\ propositions[1] = d.p
    ELSE IF ~d.fatal /\ Succeeded(<<"(">> \o file[1] \o <<")">>, w)
    THEN /\ Len(propositions) >= 1
         /\ propositions[1] = w.p
    ELSE /\ propositions = <<>>
         /\ verdict = "syntax error"
         /\ linenum = 1
         /\ exitCode = 1

AcceptedAfter(d) ==
    AcceptedAsParsed(d, parseExpr(<<"(">> \o file[1] \o <<")">>, 1, NoExpr, Ctx(d)))

\* C9: the first line is accepted iff it parses as one expression up to
\* trailing whitespace, or does so wrapped in parentheses; the tree is that
\* of the direct attempt when it succeeds, else that of the wrapped one; a
\* line failing both is a syntax error; "[A] and not [A]" is accepted as
\* And(A, Not(A)).
C9_TopLevelParse ==
    linenum >= 1 /\ IsProposition(file[1]) /\ verdict # "over 32 variables" =>
        /\ AcceptedAfter(DirectAttempt)
        /\ file[1] = ExampleLine =>
              /\ Len(propositions) >= 1
              /\ propositions[1] = MkBin("And", MkVar(0), MkNot(MkVar(0)))

\* "[A] and not [A]" was accepted by the attempt in parentheses.
C9_Witness ==
    /\ file # <<>>
    /\ file[1] = ExampleLine
    /\ Len(propositions) = 1
    /\ ~DirectParses
    /\ WrappedParses

====
